---- MODULE Spec2Model ----
(***************************************************************************)
(* Model of the spec-driven debate engine of backend/                      *)
(* langgraph_debate_orchestrator.py: the router, the four executor nodes,  *)
(* the completion calls they await, the graph library's step guard and the *)
(* run_debate driver that turns state patches into the event stream.       *)
(*                                                                         *)
(* One engine step is one node execution (one super-step of the compiled   *)
(* graph).  A node that awaits completion calls is split at its await:     *)
(* an Issue action starts the step, CallReturn delivers one response (in   *)
(* any order), and a Join action applies the node's state patch and lets   *)
(* the driver emit the events of that patch.                               *)
(*                                                                         *)
(* run_debate starts graph.astream(initial_state) without a config, so the *)
(* graph library's default recursion limit is the budget in force: at most *)
(* RecursionLimit node executions, and GraphRecursionError when a node is  *)
(* still scheduled once they are used up.                                  *)
(*                                                                         *)
(* Two further specifications cover what happens before a run: LoadSpec is *)
(* load_debate_spec_from_yaml of backend/debate_spec.py, one action per    *)
(* iteration of its loop; LimitSpec is one call of the step budget         *)
(* calculator _calculate_recursion_limit, which run_debate never calls.    *)
(***************************************************************************)
EXTENDS Integers, Sequences, FiniteSets, TLC

\* ---------------------------------------------------------------- bounds
MaxAgents == 2
MaxRounds == 2
MaxLongRounds == 5
MaxFailures == 1
MaxLimitRounds == 4
MaxLimitAgents == 4
MaxRawRounds == 2
MaxShuffleAgents == 4
MaxEntityIds == 2
MaxBuiltIn == 1
MaxImportRecords == 2

\* ------------------------------------------------------- program constants
RecursionLimit == 25
MinLimit == 25
MaxLimit == 100

None == 0
ModeratorId == 0
Topic == "T"

RoundTypes == {"parallel", "sequential", "moderator"}
RoundContextStrategy == {"topic_only", "full_transcript"}
RoundSpec == [type : RoundTypes, context_strategy : RoundContextStrategy]

Nodes ==
  {"route_debate", "execute_parallel_round", "setup_sequential_round",
   "execute_sequential_turn", "execute_moderator_round"}

\* "error" is an exception of a class _invoke_agent catches (ValueError,
\* RuntimeError, ConnectionError); "timeout" is any other exception the
\* completion service raises (TimeoutError, an API error, ...).
Outcomes == {"ok", "error", "timeout"}

VARIABLES
  debate_spec,            \* round number -> RoundSpec (immutable input)
  agents,                 \* sequence of [id, name] (immutable input);
                          \* in ImportSpec AgentManager.agents: id -> Agent
  debate_transcript,
  current_round,
  round_agent_order,
  current_agent_index,
  status_context,
  last_speaker_id,
  pc,                     \* node scheduled next, or how the run ended
  steps,                  \* node executions started so far
  awaiting,               \* the scheduled node has issued its calls
  pending,                \* ids of the callers whose call is outstanding
  results,                \* caller id -> response text, for returned calls
  completed,              \* caller ids in the order their calls returned
  call_content,           \* context handed to the calls of the last issue
  call_failures,          \* history of failed calls: [round, call, kind]
  last_status_context,    \* run_debate locals
  last_transcript_index,
  events,                 \* the event stream emitted so far
  limit,                  \* what _calculate_recursion_limit returned, if called
  raw_rounds,             \* load_debate_spec_from_yaml: the parsed YAML rounds
  rounds,                 \* load_debate_spec_from_yaml: the rounds built so far
  shuffled,               \* _get_randomized_agents: agents_copy after random.shuffle
  panels,                 \* AgentManager.panels: id -> Panel
  cursor,                 \* import_data: records handled by the running call
  entity_data,            \* _import_entity: the record handled last
  before                  \* the two stores as the last import_data call found them

vars ==
  <<debate_spec, agents, debate_transcript, current_round, round_agent_order,
    current_agent_index, status_context, last_speaker_id, pc, steps, awaiting,
    pending, results, completed, call_content, call_failures,
    last_status_context, last_transcript_index, events, limit, raw_rounds,
    rounds, shuffled, panels, cursor, entity_data, before>>

inputs == <<debate_spec, agents>>
callvars == <<pending, results, completed, call_content, call_failures>>
drivervars == <<last_status_context, last_transcript_index, events>>
storevars == <<panels, cursor, entity_data, before>>
setupvars == <<limit, raw_rounds, rounds, shuffled, storevars>>

\* ------------------------------------------------------------ the inputs
\* Round numbers are positive and ascending but need not be contiguous or
\* start at 1: the generated specs use the keys 2, 4, 5, 7, 8, 10, ...
RoundKey(i) == i + 1 + (i \div 2)

SpecOf(seq) ==
  [r \in {RoundKey(i) : i \in 1..Len(seq)} |->
     seq[CHOOSE i \in 1..Len(seq) : RoundKey(i) = r]]

\* every sequence of up to MaxRounds round types, under either strategy
ShortSpecs ==
  UNION {{SpecOf([i \in 1..n |-> [type |-> t[i], context_strategy |-> c]]) :
            t \in [1..n -> RoundTypes], c \in RoundContextStrategy} :
           n \in 1..MaxRounds}

LongSpecs ==
  {SpecOf([i \in 1..n |-> [type |-> "sequential",
                           context_strategy |-> "full_transcript"]]) :
     n \in (MaxRounds + 1)..MaxLongRounds}

\* the end-to-end scenario: rounds 1, 2, 3 and two participants A, B
E2ESpec ==
  (1 :> [type |-> "parallel", context_strategy |-> "topic_only"])
  @@ (2 :> [type |-> "sequential", context_strategy |-> "full_transcript"])
  @@ (3 :> [type |-> "moderator", context_strategy |-> "full_transcript"])

E2EAgents == <<[id |-> 1, name |-> "A"], [id |-> 2, name |-> "B"]>>

\* turn-based rounds with a broadcast or a synthesis round between them
InterleavedSpecs ==
  {SpecOf(<<[type |-> "sequential", context_strategy |-> "full_transcript"],
            [type |-> t, context_strategy |-> "full_transcript"],
            [type |-> "sequential", context_strategy |-> "full_transcript"]>>) :
     t \in {"parallel", "moderator"}}

DebateSpecs == ShortSpecs \cup LongSpecs \cup {E2ESpec} \cup InterleavedSpecs

\* ids are unique, names need not be: the first two participants share one
AgentName(i) == <<"A", "A", "B", "C", "D", "E">>[i]

AgentLists ==
  {[i \in 1..k |-> [id |-> i, name |-> AgentName(i)]] : k \in 0..MaxAgents}
    \cup {E2EAgents}

\* ------------------------------------------------------------- helpers
SeqSum(f, n) ==
  LET RECURSIVE S(_)
      S(i) == IF i = 0 THEN 0 ELSE f[i] + S(i - 1)
  IN S(n)

Min(S) == CHOOSE x \in S : \A y \in S : x <= y

ordered_rounds(spec) ==
  LET RECURSIVE Sort(_)
      Sort(S) == IF S = {} THEN <<>> ELSE <<Min(S)>> \o Sort(S \ {Min(S)})
  IN Sort(DOMAIN spec)

type_for_round(spec, round_number) ==
  IF round_number \in DOMAIN spec THEN spec[round_number].type ELSE "none"

NoStatus == [code |-> "None", round_number |-> 0, agent |-> ""]
Status(code, round_number, agent) ==
  [code |-> code, round_number |-> round_number, agent |-> agent]

\* variant: the round after round r is always r + 1
NextRoundNumber_PlusOne(spec, round) == round + 1

\* _next_round_number
NextRoundNumber(spec, round) ==
  IF \E r \in DOMAIN spec : r > round
    THEN Min({r \in DOMAIN spec : r > round})
    ELSE round + 1

\* variant: a sequential round is always sent to its setup
RouteCode_AlwaysSetup(spec, round_num, order) ==
  IF round_num \notin DOMAIN spec THEN "END"
  ELSE IF spec[round_num].type = "parallel" THEN "OPENING_STATEMENTS"
  ELSE IF spec[round_num].type = "sequential" THEN "SETUP_SEQUENTIAL_ROUND"
  ELSE IF spec[round_num].type = "moderator" THEN "MODERATOR_ROUND"
  ELSE "END"

\* _route_debate: the status code of the chosen branch
RouteCode(spec, round_num, order) ==
  IF round_num \notin DOMAIN spec THEN "END"
  ELSE IF spec[round_num].type = "parallel" THEN "OPENING_STATEMENTS"
  ELSE IF spec[round_num].type = "sequential"
    THEN IF order = <<>> THEN "SETUP_SEQUENTIAL_ROUND" ELSE "SEQUENTIAL_TURN"
  ELSE IF spec[round_num].type = "moderator" THEN "MODERATOR_ROUND"
  ELSE "END"

\* the conditional edges of _build_debate_graph
EdgeTarget(code) ==
  CASE code = "OPENING_STATEMENTS" -> "execute_parallel_round"
    [] code = "SETUP_SEQUENTIAL_ROUND" -> "setup_sequential_round"
    [] code = "SEQUENTIAL_TURN" -> "execute_sequential_turn"
    [] code = "MODERATOR_ROUND" -> "execute_moderator_round"
    [] OTHER -> "END"

\* variant: an entry carries the number after its round's
CreateTranscriptEntry_RoundPlusOne(agent, response, round_num) ==
  IF agent.id # ModeratorId
    THEN [agent |-> agent.name, id |-> agent.id, role |-> "debater",
          round |-> round_num + 1, content |-> response]
    ELSE [agent |-> "Moderator", id |-> ModeratorId, role |-> "moderator",
          round |-> round_num + 1, content |-> response]

\* _create_transcript_entry; id is the author's agent id (0: the moderator),
\* kept beside the name the entry carries.
CreateTranscriptEntry(agent, response, round_num) ==
  IF agent.id # ModeratorId
    THEN [agent |-> agent.name, id |-> agent.id, role |-> "debater",
          round |-> round_num, content |-> response]
    ELSE [agent |-> "Moderator", id |-> ModeratorId, role |-> "moderator",
          round |-> round_num, content |-> response]

ModeratorAgent == [id |-> ModeratorId, name |-> "Moderator"]

\* _build_round_context
BuildRoundContext(transcript, strategy) ==
  IF strategy = "topic_only"
    THEN [topic |-> Topic, framed |-> FALSE, lines |-> <<>>]
    ELSE [topic |-> Topic, framed |-> TRUE,
          lines |-> [i \in 1..Len(transcript) |->
                       <<transcript[i].agent, transcript[i].round,
                         transcript[i].content>>]]

\* _invoke_agent: the text a call yields.  call names the call that produced
\* the text; who is the name the fallback text carries.
InvokeAgent(agent, outcome) ==
  IF outcome = "ok"
    THEN [kind |-> "ok", call |-> agent.id, who |-> ""]
    ELSE [kind |-> "fallback", call |-> agent.id, who |-> agent.name]

\* the except clause of _invoke_agent
Caught(outcome) == outcome = "error"

\* the permutations random.shuffle can leave in a list of n elements
Shuffles(n) ==
  {p \in [1..n -> 1..n] : \A i, j \in 1..n : i # j => p[i] # p[j]}

\* variant: the excluded participant is removed instead of moved to the end
GetRandomizedAgents_DropExcluded(ags, p, exclude_first_agent_id) ==
  IF ags = <<>> THEN <<>>
  ELSE LET agents_copy == [i \in 1..Len(ags) |-> ags[p[i]]]
       IN IF /\ exclude_first_agent_id # None
             /\ Len(agents_copy) > 1
             /\ agents_copy[1].id = exclude_first_agent_id
            THEN Tail(agents_copy)
            ELSE agents_copy

\* variant: the exclusion compares names instead of ids
GetRandomizedAgents_ByName(ags, p, exclude_first_agent_id) ==
  IF ags = <<>> THEN <<>>
  ELSE LET agents_copy == [i \in 1..Len(ags) |-> ags[p[i]]]
       IN IF /\ exclude_first_agent_id # None
             /\ Len(agents_copy) > 1
             /\ \E i \in 1..Len(ags) :
                  /\ ags[i].id = exclude_first_agent_id
                  /\ agents_copy[1].name = ags[i].name
            THEN Tail(agents_copy) \o <<Head(agents_copy)>>
            ELSE agents_copy

\* variant: the shuffled order is returned without the rotation
GetRandomizedAgents_NoRotate(ags, p, exclude_first_agent_id) ==
  IF ags = <<>> THEN <<>> ELSE [i \in 1..Len(ags) |-> ags[p[i]]]

\* variant: the excluded participant is moved to the end wherever it stands
GetRandomizedAgents_ExcludedLast(ags, p, exclude_first_agent_id) ==
  IF ags = <<>> THEN <<>>
  ELSE LET agents_copy == [i \in 1..Len(ags) |-> ags[p[i]]]
           IsExcluded(a) == a.id = exclude_first_agent_id
           NotExcluded(a) == a.id # exclude_first_agent_id
       IN IF exclude_first_agent_id # None /\ Len(agents_copy) > 1
            THEN SelectSeq(agents_copy, NotExcluded)
                   \o SelectSeq(agents_copy, IsExcluded)
            ELSE agents_copy

\* _get_randomized_agents, given the permutation the shuffle produced
GetRandomizedAgents(ags, p, exclude_first_agent_id) ==
  IF ags = <<>> THEN <<>>
  ELSE LET agents_copy == [i \in 1..Len(ags) |-> ags[p[i]]]
       IN IF /\ exclude_first_agent_id # None
             /\ Len(agents_copy) > 1
             /\ agents_copy[1].id = exclude_first_agent_id
            THEN Tail(agents_copy) \o <<Head(agents_copy)>>
            ELSE agents_copy

\* variant: the results are taken in the order the calls completed
GatherResults_CompletionOrder(ags, res, done) ==
  [i \in 1..Len(ags) |-> res[done[i]]]

\* asyncio.gather: the results in the order of the awaitables
GatherResults(ags, res, done) == [i \in 1..Len(ags) |-> res[ags[i].id]]

\* variant: no limit on the number of steps
WithinBudget_Unchecked(n) == TRUE

\* the recursion limit check of graph.astream
WithinBudget(n) == n < RecursionLimit

\* variant: a sequential round is charged one step per participant
RoundCost_OneStepPerAgent(type, k) == IF type = "sequential" THEN 2 + k ELSE 2

\* the step budget calculator (tests/test_orchestrator_recursion_limits.py)
RoundCost(type, k) == IF type = "sequential" THEN 2 + 2 * k ELSE 2

\* variant: the scaled total is rounded up
CalculateRecursionLimit_Ceil(spec, k) ==
  LET ord == ordered_rounds(spec)
      total == 1 + SeqSum([i \in 1..Len(ord) |-> RoundCost(spec[ord[i]].type, k)],
                          Len(ord))
      scaled == (total * 13 + 9) \div 10
  IN IF scaled < MinLimit THEN MinLimit
     ELSE IF scaled > MaxLimit THEN MaxLimit ELSE scaled

\* variant: no upper clamp
CalculateRecursionLimit_NoMax(spec, k) ==
  LET ord == ordered_rounds(spec)
      total == 1 + SeqSum([i \in 1..Len(ord) |-> RoundCost(spec[ord[i]].type, k)],
                          Len(ord))
      scaled == (total * 13) \div 10
  IN IF scaled < MinLimit THEN MinLimit ELSE scaled

CalculateRecursionLimit(spec, k) ==
  LET ord == ordered_rounds(spec)
      total == 1 + SeqSum([i \in 1..Len(ord) |-> RoundCost(spec[ord[i]].type, k)],
                          Len(ord))
      scaled == (total * 13) \div 10
  IN IF scaled < MinLimit THEN MinLimit
     ELSE IF scaled > MaxLimit THEN MaxLimit ELSE scaled

\* ------------------------------------------------------------ the driver
StatusEvent(st) == [type |-> "status_update", status |-> st]
ResponseEvent(e) == [type |-> "agent_response", entry |-> e]
CompleteEvent == [type |-> "debate_complete"]

\* variant: a changed status is reported twice
StatusEvents_Repeated(st, last_status) ==
  IF st # NoStatus /\ st # last_status
    THEN <<StatusEvent(st), StatusEvent(st)>> ELSE <<>>

\* variant: only a status that carries a round number is reported
StatusEvents_ContextOnly(st, last_status) ==
  IF st # NoStatus /\ st # last_status /\ st.round_number # 0
    THEN <<StatusEvent(st)>> ELSE <<>>

\* run_debate, loop body: the events of one state update
StatusEvents(st, last_status) ==
  IF st # NoStatus /\ st # last_status THEN <<StatusEvent(st)>> ELSE <<>>

\* variant: every update reports the transcript from its first entry
ResponseEvents_FromStart(transcript, last_index) ==
  IF Len(transcript) > last_index
    THEN [i \in 1..Len(transcript) |-> ResponseEvent(transcript[i])]
    ELSE <<>>

\* variant: only the newest entry of an update is reported
ResponseEvents_LastOnly(transcript, last_index) ==
  IF Len(transcript) > last_index
    THEN <<ResponseEvent(transcript[Len(transcript)])>>
    ELSE <<>>

ResponseEvents(transcript, last_index) ==
  IF Len(transcript) > last_index
    THEN [i \in 1..(Len(transcript) - last_index) |->
            ResponseEvent(transcript[last_index + i])]
    ELSE <<>>

\* run_debate consuming the patch of one node; transcript is <<>> when the
\* patch has no debate_transcript key
Drive(st, transcript, final) ==
  /\ events' = events \o StatusEvents(st, last_status_context)
                      \o ResponseEvents(transcript, last_transcript_index)
                      \o final
  /\ last_status_context' =
       IF st # NoStatus /\ st # last_status_context THEN st
       ELSE last_status_context
  /\ last_transcript_index' =
       IF Len(transcript) > last_transcript_index THEN Len(transcript)
       ELSE last_transcript_index

\* ------------------------------------------------------------------ Init
Init ==
  /\ debate_spec \in DebateSpecs
  /\ agents \in AgentLists
  /\ debate_transcript = <<>>
  /\ current_round = ordered_rounds(debate_spec)[1]
  /\ round_agent_order = <<>>
  /\ current_agent_index = 0
  /\ status_context = NoStatus
  /\ last_speaker_id = None
  /\ pc = "route_debate"
  /\ steps = 0
  /\ awaiting = FALSE
  /\ pending = {}
  /\ results = <<>>
  /\ completed = <<>>
  /\ call_content = BuildRoundContext(<<>>, "topic_only")
  /\ call_failures = <<>>
  /\ last_status_context = NoStatus
  /\ last_transcript_index = 0
  /\ events = <<>>
  /\ limit = None
  /\ raw_rounds = <<>>
  /\ rounds = <<>>
  /\ shuffled = <<>>
  /\ panels = <<>>
  /\ cursor = 0
  /\ entity_data = <<>>
  /\ before = <<>>

\* ----------------------------------------------------------- the engine
\* route_debate and the conditional edge leaving it.  When the edge leads to
\* END the stream of the graph is exhausted and run_debate emits
\* debate_complete.
RouteDebate ==
  /\ pc = "route_debate"
  /\ WithinBudget(steps)
  /\ LET code == RouteCode(debate_spec, current_round, round_agent_order)
         st == Status(code, 0, "")
     IN /\ status_context' = st
        /\ pc' = EdgeTarget(code)
        /\ Drive(st, <<>>,
                 IF EdgeTarget(code) = "END" THEN <<CompleteEvent>> ELSE <<>>)
  /\ steps' = steps + 1
  /\ UNCHANGED <<inputs, setupvars, debate_transcript, current_round, round_agent_order,
                 current_agent_index, last_speaker_id, awaiting, callvars>>

\* variant: debate_complete is emitted although the run was aborted
BudgetExceeded_Completes ==
  /\ pc \in Nodes
  /\ ~awaiting
  /\ ~WithinBudget(steps)
  /\ pc' = "GraphRecursionError"
  /\ events' = Append(events, CompleteEvent)
  /\ UNCHANGED <<inputs, setupvars, debate_transcript, current_round, round_agent_order,
                 current_agent_index, status_context, last_speaker_id, steps,
                 awaiting, callvars, last_status_context,
                 last_transcript_index>>

\* graph.astream raising GraphRecursionError out of run_debate
BudgetExceeded ==
  /\ pc \in Nodes
  /\ ~awaiting
  /\ ~WithinBudget(steps)
  /\ pc' = "GraphRecursionError"
  /\ UNCHANGED <<inputs, setupvars, debate_transcript, current_round, round_agent_order,
                 current_agent_index, status_context, last_speaker_id, steps,
                 awaiting, callvars, drivervars>>

\* variant: the node's own status reaches the stream when its calls are
\* issued
IssueCalls_AnnouncesFirst(callers, strategy) ==
  /\ WithinBudget(steps)
  /\ ~awaiting
  /\ awaiting' = TRUE
  /\ steps' = steps + 1
  /\ pending' = callers
  /\ results' = <<>>
  /\ completed' = <<>>
  /\ call_content' = BuildRoundContext(debate_transcript, strategy)
  /\ events' =
       Append(events,
              StatusEvent(Status(IF pc = "execute_sequential_turn"
                                   THEN "AGENT_TURN_STARTING"
                                   ELSE "ROUND_STARTING",
                                 current_round, "")))
  /\ UNCHANGED <<inputs, setupvars, debate_transcript, current_round,
                 round_agent_order, current_agent_index, status_context,
                 last_speaker_id, pc, call_failures, last_status_context,
                 last_transcript_index>>

\* a node starting its completion calls for the given callers
IssueCalls(callers, strategy) ==
  /\ WithinBudget(steps)
  /\ ~awaiting
  /\ awaiting' = TRUE
  /\ steps' = steps + 1
  /\ pending' = callers
  /\ results' = <<>>
  /\ completed' = <<>>
  /\ call_content' = BuildRoundContext(debate_transcript, strategy)
  /\ UNCHANGED <<inputs, setupvars, debate_transcript, current_round, round_agent_order,
                 current_agent_index, status_context, last_speaker_id, pc,
                 call_failures, drivervars>>

\* _execute_parallel_round up to asyncio.gather
ParallelIssue ==
  /\ pc = "execute_parallel_round"
  /\ IssueCalls({agents[i].id : i \in 1..Len(agents)},
                debate_spec[current_round].context_strategy)

\* variant: the calls of all remaining turns of the round are issued at once
TurnIssue_AllRemaining ==
  /\ pc = "execute_sequential_turn"
  /\ current_agent_index + 1 \in 1..Len(round_agent_order)
  /\ IssueCalls({round_agent_order[i].id :
                   i \in (current_agent_index + 1)..Len(round_agent_order)},
                debate_spec[current_round].context_strategy)

\* variant: a turn's context is assembled from the transcript as it stood
\* before the round, as in a broadcast
TurnIssue_RoundStartContext ==
  /\ pc = "execute_sequential_turn"
  /\ current_agent_index + 1 \in 1..Len(round_agent_order)
  /\ WithinBudget(steps)
  /\ ~awaiting
  /\ awaiting' = TRUE
  /\ steps' = steps + 1
  /\ pending' = {round_agent_order[current_agent_index + 1].id}
  /\ results' = <<>>
  /\ completed' = <<>>
  /\ call_content' =
       BuildRoundContext(SelectSeq(debate_transcript,
                                   LAMBDA e : e.round < current_round),
                         debate_spec[current_round].context_strategy)
  /\ UNCHANGED <<inputs, setupvars, debate_transcript, current_round,
                 round_agent_order, current_agent_index, status_context,
                 last_speaker_id, pc, call_failures, drivervars>>

\* _execute_sequential_turn up to its await
TurnIssue ==
  /\ pc = "execute_sequential_turn"
  /\ current_agent_index + 1 \in 1..Len(round_agent_order)
  /\ IssueCalls({round_agent_order[current_agent_index + 1].id},
                debate_spec[current_round].context_strategy)

\* _execute_moderator_round up to its await
ModeratorIssue ==
  /\ pc = "execute_moderator_round"
  /\ IssueCalls({ModeratorId}, debate_spec[current_round].context_strategy)

CallerOf(id) ==
  IF id = ModeratorId THEN ModeratorAgent
  ELSE agents[CHOOSE i \in 1..Len(agents) : agents[i].id = id]

\* variant: each returning call appends its entry at once and the context of
\* the calls still outstanding is assembled again from the grown transcript
CallReturn_RebuildsContext(id, outcome) ==
  /\ awaiting
  /\ id \in pending
  /\ outcome # "ok" => Len(call_failures) < MaxFailures
  /\ call_failures' =
       IF outcome = "ok" THEN call_failures
       ELSE Append(call_failures,
                   [round |-> current_round, call |-> id, kind |-> outcome])
  /\ IF outcome = "ok" \/ Caught(outcome)
       THEN /\ results' = (id :> InvokeAgent(CallerOf(id), outcome)) @@ results
            /\ completed' = Append(completed, id)
            /\ pending' = pending \ {id}
            /\ debate_transcript' =
                 Append(debate_transcript,
                        CreateTranscriptEntry(CallerOf(id),
                                              InvokeAgent(CallerOf(id), outcome),
                                              current_round))
            /\ call_content' =
                 BuildRoundContext(debate_transcript',
                                   debate_spec[current_round].context_strategy)
            /\ UNCHANGED <<pc, awaiting>>
       ELSE /\ pc' = "CallError"
            /\ awaiting' = FALSE
            /\ pending' = {}
            /\ UNCHANGED <<results, completed, debate_transcript, call_content>>
  /\ UNCHANGED <<inputs, setupvars, current_round, round_agent_order,
                 current_agent_index, status_context, last_speaker_id, steps,
                 drivervars>>

\* _invoke_agent: one outstanding call ends.  A caught failure becomes the
\* fallback text; any other exception leaves _invoke_agent, the awaiting node
\* and run_debate, and the calls still outstanding are abandoned.
CallReturn(id, outcome) ==
  /\ awaiting
  /\ id \in pending
  /\ outcome # "ok" => Len(call_failures) < MaxFailures
  /\ call_failures' =
       IF outcome = "ok" THEN call_failures
       ELSE Append(call_failures,
                   [round |-> current_round, call |-> id, kind |-> outcome])
  /\ IF outcome = "ok" \/ Caught(outcome)
       THEN /\ results' = (id :> InvokeAgent(CallerOf(id), outcome)) @@ results
            /\ completed' = Append(completed, id)
            /\ pending' = pending \ {id}
            /\ UNCHANGED <<pc, awaiting>>
       ELSE /\ pc' = "CallError"
            /\ awaiting' = FALSE
            /\ pending' = {}
            /\ UNCHANGED <<results, completed>>
  /\ UNCHANGED <<inputs, setupvars, debate_transcript, current_round, round_agent_order,
                 current_agent_index, status_context, last_speaker_id, steps,
                 call_content, drivervars>>

\* variant: the round is applied as soon as some call has returned, with the
\* entries of the calls returned so far
ParallelJoin_Partial ==
  /\ pc = "execute_parallel_round"
  /\ awaiting
  /\ completed # <<>>
  /\ LET HasReturned(a) == a.id \in DOMAIN results
         done == SelectSeq(agents, HasReturned)
         current_transcript ==
           debate_transcript \o
             [i \in 1..Len(done) |->
                CreateTranscriptEntry(done[i], results[done[i].id],
                                      current_round)]
         st == Status("ROUND_STARTING", current_round, "")
     IN /\ debate_transcript' = current_transcript
        /\ current_round' = NextRoundNumber(debate_spec, current_round)
        /\ status_context' = st
        /\ Drive(st, current_transcript, <<>>)
  /\ pc' = "route_debate"
  /\ awaiting' = FALSE
  /\ UNCHANGED <<inputs, setupvars, round_agent_order, current_agent_index,
                 last_speaker_id, steps, callvars>>

\* variant: a broadcast round forgets the last speaker
ParallelJoin_ClearsLastSpeaker ==
  /\ pc = "execute_parallel_round"
  /\ awaiting
  /\ pending = {}
  /\ LET res == GatherResults(agents, results, completed)
         current_transcript ==
           debate_transcript \o
             [i \in 1..Len(agents) |->
                CreateTranscriptEntry(agents[i], res[i], current_round)]
         st == Status("ROUND_STARTING", current_round, "")
     IN /\ debate_transcript' = current_transcript
        /\ current_round' = NextRoundNumber(debate_spec, current_round)
        /\ status_context' = st
        /\ Drive(st, current_transcript, <<>>)
  /\ last_speaker_id' = None
  /\ pc' = "route_debate"
  /\ awaiting' = FALSE
  /\ UNCHANGED <<inputs, setupvars, round_agent_order, current_agent_index,
                 steps, callvars>>

\* _execute_parallel_round after asyncio.gather
ParallelJoin ==
  /\ pc = "execute_parallel_round"
  /\ awaiting
  /\ pending = {}
  /\ LET res == GatherResults(agents, results, completed)
         current_transcript ==
           debate_transcript \o
             [i \in 1..Len(agents) |->
                CreateTranscriptEntry(agents[i], res[i], current_round)]
         st == Status("ROUND_STARTING", current_round, "")
     IN /\ debate_transcript' = current_transcript
        /\ current_round' = NextRoundNumber(debate_spec, current_round)
        /\ status_context' = st
        /\ Drive(st, current_transcript, <<>>)
  /\ pc' = "route_debate"
  /\ awaiting' = FALSE
  /\ UNCHANGED <<inputs, setupvars, round_agent_order, current_agent_index,
                 last_speaker_id, steps, callvars>>

\* variant: the setup node has an edge straight to the turn node
SetupSequentialRound_StraightToTurn ==
  /\ pc = "setup_sequential_round"
  /\ WithinBudget(steps)
  /\ \E p \in Shuffles(Len(agents)) :
       round_agent_order' = GetRandomizedAgents(agents, p, last_speaker_id)
  /\ LET st == Status("ROUND_STARTING", current_round, "")
     IN /\ status_context' = st
        /\ Drive(st, <<>>, <<>>)
  /\ pc' = "execute_sequential_turn"
  /\ steps' = steps + 1
  /\ UNCHANGED <<inputs, setupvars, debate_transcript, current_round,
                 current_agent_index, last_speaker_id, awaiting, callvars>>

\* _setup_sequential_round
SetupSequentialRound ==
  /\ pc = "setup_sequential_round"
  /\ WithinBudget(steps)
  /\ \E p \in Shuffles(Len(agents)) :
       round_agent_order' = GetRandomizedAgents(agents, p, last_speaker_id)
  /\ LET st == Status("ROUND_STARTING", current_round, "")
     IN /\ status_context' = st
        /\ Drive(st, <<>>, <<>>)
  /\ pc' = "route_debate"
  /\ steps' = steps + 1
  /\ UNCHANGED <<inputs, setupvars, debate_transcript, current_round,
                 current_agent_index, last_speaker_id, awaiting, callvars>>

\* variant: the last turn of a round does not reset the index
TurnJoin_KeepsIndex ==
  /\ pc = "execute_sequential_turn"
  /\ awaiting
  /\ pending = {}
  /\ LET agent == round_agent_order[current_agent_index + 1]
         current_transcript ==
           Append(debate_transcript,
                  CreateTranscriptEntry(agent, results[agent.id], current_round))
         next_agent_index == current_agent_index + 1
         st == Status("AGENT_TURN_STARTING", current_round, agent.name)
     IN /\ debate_transcript' = current_transcript
        /\ status_context' = st
        /\ Drive(st, current_transcript, <<>>)
        /\ IF next_agent_index >= Len(round_agent_order)
             THEN /\ current_round' = NextRoundNumber(debate_spec, current_round)
                  /\ current_agent_index' = next_agent_index
                  /\ round_agent_order' = <<>>
                  /\ last_speaker_id' = agent.id
             ELSE /\ current_agent_index' = next_agent_index
                  /\ UNCHANGED <<current_round, round_agent_order,
                                 last_speaker_id>>
  /\ pc' = "route_debate"
  /\ awaiting' = FALSE
  /\ UNCHANGED <<inputs, setupvars, steps, callvars>>

\* variant: the last turn of a round does not clear the order
TurnJoin_KeepsOrder ==
  /\ pc = "execute_sequential_turn"
  /\ awaiting
  /\ pending = {}
  /\ LET agent == round_agent_order[current_agent_index + 1]
         current_transcript ==
           Append(debate_transcript,
                  CreateTranscriptEntry(agent, results[agent.id], current_round))
         next_agent_index == current_agent_index + 1
         st == Status("AGENT_TURN_STARTING", current_round, agent.name)
     IN /\ debate_transcript' = current_transcript
        /\ status_context' = st
        /\ Drive(st, current_transcript, <<>>)
        /\ IF next_agent_index >= Len(round_agent_order)
             THEN /\ current_round' = NextRoundNumber(debate_spec, current_round)
                  /\ current_agent_index' = 0
                  /\ round_agent_order' = round_agent_order
                  /\ last_speaker_id' = agent.id
             ELSE /\ current_agent_index' = next_agent_index
                  /\ UNCHANGED <<current_round, round_agent_order,
                                 last_speaker_id>>
  /\ pc' = "route_debate"
  /\ awaiting' = FALSE
  /\ UNCHANGED <<inputs, setupvars, steps, callvars>>

\* variant: the last turn of a round does not record the last speaker
TurnJoin_KeepsLastSpeaker ==
  /\ pc = "execute_sequential_turn"
  /\ awaiting
  /\ pending = {}
  /\ LET agent == round_agent_order[current_agent_index + 1]
         current_transcript ==
           Append(debate_transcript,
                  CreateTranscriptEntry(agent, results[agent.id], current_round))
         next_agent_index == current_agent_index + 1
         st == Status("AGENT_TURN_STARTING", current_round, agent.name)
     IN /\ debate_transcript' = current_transcript
        /\ status_context' = st
        /\ Drive(st, current_transcript, <<>>)
        /\ IF next_agent_index >= Len(round_agent_order)
             THEN /\ current_round' = NextRoundNumber(debate_spec, current_round)
                  /\ current_agent_index' = 0
                  /\ round_agent_order' = <<>>
                  /\ last_speaker_id' = last_speaker_id
             ELSE /\ current_agent_index' = next_agent_index
                  /\ UNCHANGED <<current_round, round_agent_order,
                                 last_speaker_id>>
  /\ pc' = "route_debate"
  /\ awaiting' = FALSE
  /\ UNCHANGED <<inputs, setupvars, steps, callvars>>

\* _execute_sequential_turn after its await
TurnJoin ==
  /\ pc = "execute_sequential_turn"
  /\ awaiting
  /\ pending = {}
  /\ LET agent == round_agent_order[current_agent_index + 1]
         current_transcript ==
           Append(debate_transcript,
                  CreateTranscriptEntry(agent, results[agent.id], current_round))
         next_agent_index == current_agent_index + 1
         st == Status("AGENT_TURN_STARTING", current_round, agent.name)
     IN /\ debate_transcript' = current_transcript
        /\ status_context' = st
        /\ Drive(st, current_transcript, <<>>)
        /\ IF next_agent_index >= Len(round_agent_order)
             THEN /\ current_round' = NextRoundNumber(debate_spec, current_round)
                  /\ current_agent_index' = 0
                  /\ round_agent_order' = <<>>
                  /\ last_speaker_id' = agent.id
             ELSE /\ current_agent_index' = next_agent_index
                  /\ UNCHANGED <<current_round, round_agent_order,
                                 last_speaker_id>>
  /\ pc' = "route_debate"
  /\ awaiting' = FALSE
  /\ UNCHANGED <<inputs, setupvars, steps, callvars>>

\* variant: the synthesis replaces the transcript by its own entry
ModeratorJoin_SummaryOnly ==
  /\ pc = "execute_moderator_round"
  /\ awaiting
  /\ pending = {}
  /\ LET current_transcript ==
           <<CreateTranscriptEntry(ModeratorAgent, results[ModeratorId],
                                   current_round)>>
         st == Status("ROUND_STARTING", current_round, "")
     IN /\ debate_transcript' = current_transcript
        /\ current_round' = NextRoundNumber(debate_spec, current_round)
        /\ status_context' = st
        /\ Drive(st, current_transcript, <<>>)
  /\ pc' = "route_debate"
  /\ awaiting' = FALSE
  /\ UNCHANGED <<inputs, setupvars, round_agent_order, current_agent_index,
                 last_speaker_id, steps, callvars>>

\* _execute_moderator_round after its await
ModeratorJoin ==
  /\ pc = "execute_moderator_round"
  /\ awaiting
  /\ pending = {}
  /\ LET current_transcript ==
           Append(debate_transcript,
                  CreateTranscriptEntry(ModeratorAgent, results[ModeratorId],
                                        current_round))
         st == Status("ROUND_STARTING", current_round, "")
     IN /\ debate_transcript' = current_transcript
        /\ current_round' = NextRoundNumber(debate_spec, current_round)
        /\ status_context' = st
        /\ Drive(st, current_transcript, <<>>)
  /\ pc' = "route_debate"
  /\ awaiting' = FALSE
  /\ UNCHANGED <<inputs, setupvars, round_agent_order, current_agent_index,
                 last_speaker_id, steps, callvars>>

Next ==
  \/ RouteDebate
  \/ BudgetExceeded
  \/ ParallelIssue
  \/ TurnIssue
  \/ ModeratorIssue
  \/ \E id \in pending, outcome \in Outcomes : CallReturn(id, outcome)
  \/ ParallelJoin
  \/ SetupSequentialRound
  \/ TurnJoin
  \/ ModeratorJoin

Spec == Init /\ [][Next]_vars

\* ------------------------------------------- the step budget calculator
\* The calculator is a pure function of the orchestrator's spec and agents;
\* LimitSpec constructs an orchestrator and calls it once.
TwentySequential ==
  [r \in 1..20 |-> [type |-> "sequential",
                    context_strategy |-> "full_transcript"]]

LimitSpecs ==
  UNION {{SpecOf([i \in 1..n |-> [type |-> t[i],
                                 context_strategy |-> "full_transcript"]]) :
            t \in [1..n -> RoundTypes]} : n \in 1..MaxLimitRounds}
    \cup {TwentySequential}

LimitAgentLists ==
  {[i \in 1..k |-> [id |-> i, name |-> AgentName(i)]] : k \in 0..MaxLimitAgents}

LimitInit ==
  /\ debate_spec \in LimitSpecs
  /\ agents \in LimitAgentLists
  /\ debate_transcript = <<>>
  /\ current_round = ordered_rounds(debate_spec)[1]
  /\ round_agent_order = <<>>
  /\ current_agent_index = 0
  /\ status_context = NoStatus
  /\ last_speaker_id = None
  /\ pc = "calculate_recursion_limit"
  /\ steps = 0
  /\ awaiting = FALSE
  /\ pending = {}
  /\ results = <<>>
  /\ completed = <<>>
  /\ call_content = BuildRoundContext(<<>>, "topic_only")
  /\ call_failures = <<>>
  /\ last_status_context = NoStatus
  /\ last_transcript_index = 0
  /\ events = <<>>
  /\ limit = None
  /\ raw_rounds = <<>>
  /\ rounds = <<>>
  /\ shuffled = <<>>
  /\ panels = <<>>
  /\ cursor = 0
  /\ entity_data = <<>>
  /\ before = <<>>

CalculateLimit ==
  /\ pc = "calculate_recursion_limit"
  /\ limit' = CalculateRecursionLimit(debate_spec, Len(agents))
  /\ pc' = "returned"
  /\ UNCHANGED <<inputs, raw_rounds, rounds, shuffled, storevars,
                 debate_transcript,
                 current_round, round_agent_order,
                 current_agent_index, status_context, last_speaker_id, steps,
                 awaiting, callvars, drivervars>>

LimitNext == CalculateLimit

LimitSpec == LimitInit /\ [][LimitNext]_vars

\* =================================================================
\* Properties
\* =================================================================
NumAgents == Len(agents)
Terminated == pc \in {"END", "GraphRecursionError", "CallError"}

EventIdx(type) == {i \in 1..Len(events) : events[i].type = type}

ResponsesForRound(r) ==
  Cardinality({i \in EventIdx("agent_response") : events[i].entry.round = r})

RoundEntries(r) ==
  LET InRound(e) == e.round = r IN SelectSeq(debate_transcript, InRound)

HasComplete == EventIdx("debate_complete") # {}

\* what an event shows of itself: its type, a status code or speaker name,
\* and a round number
View(e) ==
  CASE e.type = "status_update" ->
         <<"status_update", e.status.code, e.status.agent>>
    [] e.type = "agent_response" ->
         <<"agent_response", e.entry.agent, e.entry.round>>
    [] OTHER -> <<"debate_complete">>

EventViews == [i \in 1..Len(events) |-> View(events[i])]

\* ------------------------------------------------------------------ C1
\* C1: in a run with k >= 1 participants that reached End, the stream holds
\* exactly k agent_response events for each parallel round, k for each
\* sequential round, one for each moderator round, none for any other round
\* number, and exactly one debate_complete, which is its last event.
C1_CompletedRunEmitsEveryRound ==
  (pc = "END" /\ NumAgents >= 1) =>
    /\ \A r \in DOMAIN debate_spec :
         ResponsesForRound(r) =
           IF debate_spec[r].type = "moderator" THEN 1 ELSE NumAgents
    /\ \A i \in EventIdx("agent_response") :
         events[i].entry.round \in DOMAIN debate_spec
    /\ EventIdx("debate_complete") = {Len(events)}

C1_Witness ==
  /\ pc = "END"
  /\ NumAgents = 2
  /\ {debate_spec[r].type : r \in DOMAIN debate_spec} = RoundTypes

\* ------------------------------------------------------------------ C2
E2ERun == pc = "END" /\ debate_spec = E2ESpec /\ agents = E2EAgents

\* the stream as the claim lists it (OPENING is the code OPENING_STATEMENTS)
C2_ClaimedStream(X, Y) ==
  << <<"status_update", "OPENING_STATEMENTS", "">>,
     <<"agent_response", "A", 1>>,
     <<"agent_response", "B", 1>>,
     <<"status_update", "SETUP_SEQUENTIAL_ROUND", "">>,
     <<"status_update", "AGENT_TURN_STARTING", X>>,
     <<"agent_response", X, 2>>,
     <<"status_update", "AGENT_TURN_STARTING", Y>>,
     <<"agent_response", Y, 2>>,
     <<"status_update", "MODERATOR_ROUND", "">>,
     <<"agent_response", "Moderator", 3>>,
     <<"debate_complete">> >>

\* the stream run_debate emits: every Route step reports its routing code,
\* every executor reports ROUND_STARTING or AGENT_TURN_STARTING before its
\* responses, and END is reported before debate_complete
C2_ActualStream(X, Y) ==
  << <<"status_update", "OPENING_STATEMENTS", "">>,
     <<"status_update", "ROUND_STARTING", "">>,
     <<"agent_response", "A", 1>>,
     <<"agent_response", "B", 1>>,
     <<"status_update", "SETUP_SEQUENTIAL_ROUND", "">>,
     <<"status_update", "ROUND_STARTING", "">>,
     <<"status_update", "SEQUENTIAL_TURN", "">>,
     <<"status_update", "AGENT_TURN_STARTING", X>>,
     <<"agent_response", X, 2>>,
     <<"status_update", "SEQUENTIAL_TURN", "">>,
     <<"status_update", "AGENT_TURN_STARTING", Y>>,
     <<"agent_response", Y, 2>>,
     <<"status_update", "MODERATOR_ROUND", "">>,
     <<"status_update", "ROUND_STARTING", "">>,
     <<"agent_response", "Moderator", 3>>,
     <<"status_update", "END", "">>,
     <<"debate_complete">> >>

\* C2 as claimed: the completed stream of the end-to-end scenario is the
\* eleven events of the claim and holds no other status_update.
C2_Original ==
  E2ERun => \E o \in {<<"A", "B">>, <<"B", "A">>} :
              EventViews = C2_ClaimedStream(o[1], o[2])

\* C2 amended: the completed stream of the end-to-end scenario is the
\* seventeen events of C2_ActualStream, {X, Y} a permutation of {A, B}.
C2_EndToEndStream ==
  E2ERun => \E o \in {<<"A", "B">>, <<"B", "A">>} :
              EventViews = C2_ActualStream(o[1], o[2])

C2_Witness == E2ERun /\ call_failures = <<>>

\* ------------------------------------------------------------------ C3
\* C3: with more than one participant, a turn order set up while
\* last_speaker_id is defined never starts with the participant whose id is
\* last_speaker_id.
C3_FirstTurnNotLastSpeaker ==
  (NumAgents > 1 /\ round_agent_order # <<>> /\ last_speaker_id # None) =>
    round_agent_order[1].id # last_speaker_id

\* the first of the order shares the excluded participant's name
C3_Witness ==
  /\ NumAgents > 1
  /\ round_agent_order # <<>>
  /\ last_speaker_id # None
  /\ round_agent_order[1].name = CallerOf(last_speaker_id).name

\* ------------------------------------------------------------------ C4
AdjacentPairs == {i \in 1..Len(debate_transcript) : i < Len(debate_transcript)}

SameParticipant(i) ==
  /\ debate_transcript[i].id # ModeratorId
  /\ debate_transcript[i].id = debate_transcript[i + 1].id

C5_BroadcastOrder ==
  \A r \in DOMAIN debate_spec :
    (debate_spec[r].type = "parallel" /\ RoundEntries(r) # <<>>) =>
      /\ Len(RoundEntries(r)) = NumAgents
      /\ \A i \in 1..NumAgents :
           /\ RoundEntries(r)[i].id = agents[i].id
           /\ RoundEntries(r)[i].agent = agents[i].name
           /\ RoundEntries(r)[i].content.call = agents[i].id

\* a parallel round has just been applied whose calls returned in reverse
C5_Witness ==
  /\ pc = "route_debate"
  /\ status_context.code = "ROUND_STARTING"
  /\ type_for_round(debate_spec, status_context.round_number) = "parallel"
  /\ RoundEntries(status_context.round_number) # <<>>
  /\ completed = <<2, 1>>

\* ------------------------------------------------------------------ C6
FailuresIn(r) == {j \in 1..Len(call_failures) : call_failures[j].round = r}

\* C6 as claimed: when exactly one call of a parallel round has failed, the
\* finished run holds k entries for that round, exactly one of them the
\* fallback text, in the failing participant's list position, and the run
\* reached debate_complete.
C6_Original ==
  \A r \in DOMAIN debate_spec :
    (/\ debate_spec[r].type = "parallel"
     /\ Cardinality(FailuresIn(r)) = 1
     /\ Terminated) =>
      /\ Len(RoundEntries(r)) = NumAgents
      /\ \A i \in 1..NumAgents :
           (RoundEntries(r)[i].content.kind = "fallback")
             <=> (\E j \in FailuresIn(r) : call_failures[j].call = agents[i].id)
      /\ ResponsesForRound(r) = NumAgents
      /\ pc = "END"
      /\ HasComplete

\* ------------------------------------------------------------------ C7
\* C7 as claimed: every failed completion call, whatever its kind and its
\* executor, is replaced by a fallback entry once its node has finished, and
\* no failure ends the run.
C7_Original ==
  /\ pc # "CallError"
  /\ \A j \in 1..Len(call_failures) :
       (~awaiting \/ call_failures[j].round # current_round) =>
         \E i \in 1..Len(debate_transcript) :
           /\ debate_transcript[i].round = call_failures[j].round
           /\ debate_transcript[i].id = call_failures[j].call
           /\ debate_transcript[i].content.kind = "fallback"

\* ------------------------------------------------------------------ C8
C8_State ==
  /\ HasComplete <=> pc = "END"
  /\ pc = "END" <=> status_context.code = "END"
  /\ HasComplete => EventIdx("debate_complete") = {Len(events)}
  /\ pc = "GraphRecursionError" =>
       /\ ~WithinBudget(steps)
       /\ status_context.code # "END"
       /\ ~HasComplete
       /\ Cardinality(EventIdx("agent_response")) = Len(debate_transcript)

\* C8: a run aborted by the step budget has not chosen End, appends no
\* transcript entry and emits no event after the abort; the stream holds
\* debate_complete (as its last event) exactly when Route chose End, and
\* never in a run the budget aborted.
C8_BudgetAbort ==
  /\ []C8_State
  /\ [][pc = "GraphRecursionError" =>
          UNCHANGED <<debate_transcript, events>>]_vars

\* a run with participants aborted by the budget after some responses
C8_Witness ==
  /\ pc = "GraphRecursionError"
  /\ NumAgents >= 1
  /\ debate_transcript # <<>>

C10_Original ==
  (NumAgents >= 1 /\ call_failures = <<>>) => pc # "GraphRecursionError"

\* ------------------------------------------------- the spec loader
\* A parsed YAML round is a mapping in which each of the four keys may be
\* missing (Absent) and type and context_strategy may hold any string.
Absent == "<absent>"

RawRoundConfigs ==
  [title : {Absent, "t"},
   type : {Absent, "not-a-type"} \cup RoundTypes,
   context_strategy : {Absent, "not-a-strategy"} \cup RoundContextStrategy,
   prompt_template : {Absent, "p"}]

RawRounds == UNION {[1..n -> RawRoundConfigs] : n \in 0..MaxRawRounds}

\* variant: the type is stored as given, without the enum constructor
RoundSpecError_TypeUnchecked(cfg) ==
  IF cfg.title = Absent THEN "KeyError"
  ELSE IF cfg.type = Absent THEN "KeyError"
  ELSE IF cfg.context_strategy = Absent THEN "KeyError"
  ELSE IF cfg.context_strategy \notin RoundContextStrategy THEN "ValueError"
  ELSE IF cfg.prompt_template = Absent THEN "KeyError"
  ELSE "none"

\* the exception building RoundSpec from cfg raises: the keyword arguments
\* are evaluated in order, cfg[key] raising KeyError, the enum constructors
\* ValueError
RoundSpecError(cfg) ==
  IF cfg.title = Absent THEN "KeyError"
  ELSE IF cfg.type = Absent THEN "KeyError"
  ELSE IF cfg.type \notin RoundTypes THEN "ValueError"
  ELSE IF cfg.context_strategy = Absent THEN "KeyError"
  ELSE IF cfg.context_strategy \notin RoundContextStrategy THEN "ValueError"
  ELSE IF cfg.prompt_template = Absent THEN "KeyError"
  ELSE "none"

LoadInit ==
  /\ raw_rounds \in RawRounds
  /\ rounds = <<>>
  /\ debate_spec = <<>>
  /\ agents = <<>>
  /\ debate_transcript = <<>>
  /\ current_round = 0
  /\ round_agent_order = <<>>
  /\ current_agent_index = 0
  /\ status_context = NoStatus
  /\ last_speaker_id = None
  /\ pc = "load_debate_spec_from_yaml"
  /\ steps = 0
  /\ awaiting = FALSE
  /\ pending = {}
  /\ results = <<>>
  /\ completed = <<>>
  /\ call_content = BuildRoundContext(<<>>, "topic_only")
  /\ call_failures = <<>>
  /\ last_status_context = NoStatus
  /\ last_transcript_index = 0
  /\ events = <<>>
  /\ limit = None
  /\ shuffled = <<>>
  /\ panels = <<>>
  /\ cursor = 0
  /\ entity_data = <<>>
  /\ before = <<>>

\* one iteration of the loop over raw_rounds.items()
LoadRound ==
  /\ pc = "load_debate_spec_from_yaml"
  /\ Len(rounds) < Len(raw_rounds)
  /\ LET cfg == raw_rounds[Len(rounds) + 1]
     IN IF RoundSpecError(cfg) = "none"
          THEN /\ rounds' = Append(rounds,
                                   [type |-> cfg.type,
                                    context_strategy |-> cfg.context_strategy])
               /\ pc' = pc
          ELSE /\ pc' = RoundSpecError(cfg)
               /\ rounds' = rounds
  /\ UNCHANGED <<inputs, limit, raw_rounds, shuffled, storevars,
                 debate_transcript,
                 current_round,
                 round_agent_order, current_agent_index, status_context,
                 last_speaker_id, steps, awaiting, callvars, drivervars>>

\* return DebateSpec(rounds=rounds)
LoadReturn ==
  /\ pc = "load_debate_spec_from_yaml"
  /\ Len(rounds) = Len(raw_rounds)
  /\ debate_spec' = SpecOf(rounds)
  /\ pc' = "loaded"
  /\ UNCHANGED <<agents, setupvars, debate_transcript, current_round,
                 round_agent_order, current_agent_index, status_context,
                 last_speaker_id, steps, awaiting, callvars, drivervars>>

LoadNext == LoadRound \/ LoadReturn

LoadSpec == LoadInit /\ [][LoadNext]_vars

\* ------------------------------------ the four rounds of DEBATE_ROUNDS
\* The rounds of the hard-coded orchestrator as a spec, run by the engine
\* with every completion call returning.
DEBATE_ROUNDS ==
  (1 :> [type |-> "parallel", context_strategy |-> "topic_only"])
  @@ (2 :> [type |-> "sequential", context_strategy |-> "full_transcript"])
  @@ (3 :> [type |-> "sequential", context_strategy |-> "full_transcript"])
  @@ (4 :> [type |-> "moderator", context_strategy |-> "full_transcript"])

FivePanel == [i \in 1..5 |-> [id |-> i, name |-> AgentName(i + 1)]]

Panels ==
  {[i \in 1..k |-> [id |-> i, name |-> AgentName(i + 1)]] : k \in 1..MaxAgents}
    \cup {FivePanel}

FourRoundInit ==
  /\ debate_spec = DEBATE_ROUNDS
  /\ agents \in Panels
  /\ debate_transcript = <<>>
  /\ current_round = ordered_rounds(debate_spec)[1]
  /\ round_agent_order = <<>>
  /\ current_agent_index = 0
  /\ status_context = NoStatus
  /\ last_speaker_id = None
  /\ pc = "route_debate"
  /\ steps = 0
  /\ awaiting = FALSE
  /\ pending = {}
  /\ results = <<>>
  /\ completed = <<>>
  /\ call_content = BuildRoundContext(<<>>, "topic_only")
  /\ call_failures = <<>>
  /\ last_status_context = NoStatus
  /\ last_transcript_index = 0
  /\ events = <<>>
  /\ limit = None
  /\ raw_rounds = <<>>
  /\ rounds = <<>>
  /\ shuffled = <<>>
  /\ panels = <<>>
  /\ cursor = 0
  /\ entity_data = <<>>
  /\ before = <<>>

FourRoundNext ==
  \/ RouteDebate
  \/ BudgetExceeded
  \/ ParallelIssue
  \/ TurnIssue
  \/ ModeratorIssue
  \/ \E id \in pending : CallReturn(id, "ok")
  \/ ParallelJoin
  \/ SetupSequentialRound
  \/ TurnJoin
  \/ ModeratorJoin

FourRoundSpec == FourRoundInit /\ [][FourRoundNext]_vars

\* DebateOrchestrator.run_debate with every call returning: the streams of
\* contributions <<speaker, round>> it can emit for the participants ags.
\* Round 1 is reported in participant order, rounds 2 and 3 each in the
\* order random.shuffle left, then the synthesis and debate_complete.
LegacyRunDebate(ags, stream) ==
  LET k == Len(ags)
      ids == {ags[i].id : i \in 1..k}
  IN /\ Len(stream) = 3 * k + 2
     /\ \A i \in 1..k : stream[i] = <<ags[i].id, 1>>
     /\ \A r \in {2, 3} :
          /\ \A i \in 1..k : stream[(r - 1) * k + i][2] = r
          /\ {stream[(r - 1) * k + i][1] : i \in 1..k} = ids
     /\ stream[3 * k + 1] = <<ModeratorId, 4>>
     /\ stream[3 * k + 2] = <<"debate_complete">>

\* ------------------------------------------------- the shuffler, called alone
\* _get_randomized_agents called once on a participant list with an exclusion
\* id that is None, a participant's id, or an id no participant has.
ShuffleAgentLists ==
  {[i \in 1..k |-> [id |-> i, name |-> AgentName(i)]] :
     k \in 0..MaxShuffleAgents}

ShuffleInit ==
  /\ debate_spec \in {SpecOf(<<[type |-> "sequential",
                                context_strategy |-> "full_transcript"]>>)}
  /\ agents \in ShuffleAgentLists
  /\ debate_transcript = <<>>
  /\ current_round = ordered_rounds(debate_spec)[1]
  /\ round_agent_order = <<>>
  /\ current_agent_index = 0
  /\ status_context = NoStatus
  /\ last_speaker_id \in {None} \cup 1..(Len(agents) + 1)
  /\ pc = "get_randomized_agents"
  /\ steps = 0
  /\ awaiting = FALSE
  /\ pending = {}
  /\ results = <<>>
  /\ completed = <<>>
  /\ call_content = BuildRoundContext(<<>>, "topic_only")
  /\ call_failures = <<>>
  /\ last_status_context = NoStatus
  /\ last_transcript_index = 0
  /\ events = <<>>
  /\ limit = None
  /\ raw_rounds = <<>>
  /\ rounds = <<>>
  /\ shuffled = <<>>
  /\ panels = <<>>
  /\ cursor = 0
  /\ entity_data = <<>>
  /\ before = <<>>

\* one call _get_randomized_agents(exclude_first_agent_id=last_speaker_id);
\* shuffled records what random.shuffle left in agents_copy
ShuffleAgents ==
  /\ pc = "get_randomized_agents"
  /\ \E p \in Shuffles(Len(agents)) :
       /\ shuffled' = [i \in 1..Len(agents) |-> agents[p[i]]]
       /\ round_agent_order' = GetRandomizedAgents(agents, p, last_speaker_id)
  /\ pc' = "order_returned"
  /\ UNCHANGED <<inputs, limit, raw_rounds, rounds, storevars,
                 debate_transcript,
                 current_round, current_agent_index, status_context,
                 last_speaker_id, steps, awaiting, callvars, drivervars>>

ShuffleNext == ShuffleAgents

ShuffleSpec == ShuffleInit /\ [][ShuffleNext]_vars

\* ----------------------------------------------------------------- C11
Returned == pc = "returned"

TypesOf(spec) ==
  [i \in 1..Len(ordered_rounds(spec)) |-> spec[ordered_rounds(spec)[i]].type]

RoundsOfType(spec, T) == Cardinality({r \in DOMAIN spec : spec[r].type \in T})

\* the total of the claim: 1, 2 per broadcast or synthesis round, 2 + 2k per
\* turn-based round
ClaimedTotal(spec, k) ==
  1 + 2 * RoundsOfType(spec, {"parallel", "moderator"})
    + (2 + 2 * k) * RoundsOfType(spec, {"sequential"})

Clamp(x) == IF x < 25 THEN 25 ELSE IF x > 100 THEN 100 ELSE x

SimpleCase == TypesOf(debate_spec) = <<"parallel", "sequential">> /\ NumAgents = 2

AddRound(spec, t) ==
  LET last == ordered_rounds(spec)[Len(ordered_rounds(spec))]
  IN spec @@ ((last + 1) :> [type |-> t, context_strategy |-> "full_transcript"])

\* C12: limit(spec, k) lies in [25, 100] and does not decrease when a round
\* of any type is added or when k grows by one; one broadcast round gives 25
\* for any k, and 20 turn-based rounds with 4 participants give 100.
C12_LimitBoundsMonotone ==
  Returned =>
    /\ limit \in 25..100
    /\ \A t \in RoundTypes :
         CalculateRecursionLimit(AddRound(debate_spec, t), NumAgents) >= limit
    /\ CalculateRecursionLimit(debate_spec, NumAgents + 1) >= limit
    /\ TypesOf(debate_spec) = <<"parallel">> => limit = 25
    /\ (debate_spec = TwentySequential /\ NumAgents = 4) => limit = 100

C12_Witness ==
  Returned /\ debate_spec = TwentySequential /\ NumAgents = 4 /\ limit = 100

\* ----------------------------------------------------------------- C13
ComplexCase ==
  /\ TypesOf(debate_spec) = <<"parallel", "sequential", "sequential", "moderator">>
  /\ NumAgents = 3

C14_Original ==
  pc = "GraphRecursionError" =>
    steps = CalculateRecursionLimit(debate_spec, NumAgents)

\* ----------------------------------------------------------------- C15
ResponseEntries ==
  LET IsResponse(e) == e.type = "agent_response"
      resp == SelectSeq(events, IsResponse)
  IN [i \in 1..Len(resp) |-> resp[i].entry]

\* C15: at every point of every run the entries of the agent_response
\* events emitted so far are a prefix of the transcript, in append order,
\* and once the driver has consumed the latest step (also in an aborted run)
\* every transcript entry has been emitted exactly once.
C15_ResponsesArePrefix ==
  /\ Len(ResponseEntries) <= Len(debate_transcript)
  /\ \A i \in 1..Len(ResponseEntries) :
       ResponseEntries[i] = debate_transcript[i]
  /\ last_transcript_index = Len(ResponseEntries)
  /\ (Terminated \/ pc = "route_debate") =>
       ResponseEntries = debate_transcript

\* a single step appended two entries to a transcript that was not empty
C15_Witness ==
  /\ pc = "route_debate"
  /\ status_context.code = "ROUND_STARTING"
  /\ type_for_round(debate_spec, status_context.round_number) = "parallel"
  /\ Len(RoundEntries(status_context.round_number)) = 2
  /\ Len(debate_transcript) > 2

\* ----------------------------------------------------------------- C16
StatusPayloads ==
  LET IsStatus(e) == e.type = "status_update"
      sts == SelectSeq(events, IsStatus)
  IN [i \in 1..Len(sts) |-> sts[i].status]

C16_State ==
  LET sp == StatusPayloads
      n == Len(sp)
  IN /\ \A i \in 1..n : i < n => sp[i] # sp[i + 1]
     /\ last_status_context = IF n = 0 THEN NoStatus ELSE sp[n]
     /\ status_context = last_status_context

\* the statuses a step adds to the stream
NewStatuses ==
  LET IsStatus(e) == e.type = "status_update"
      new == SelectSeq([i \in 1..(Len(events') - Len(events)) |->
                          events'[Len(events) + i]], IsStatus)
  IN [i \in 1..Len(new) |-> new[i].status]

C16_Step ==
  /\ Len(events') >= Len(events)
  /\ NewStatuses = IF status_context' # last_status_context
                     THEN <<status_context'>> ELSE <<>>

\* C16: a step adds a status_update to the stream exactly when the status
\* it reports differs from the last status emitted, and then adds exactly
\* that status once; no two successive status_update events are equal and
\* the last status emitted is the status of the latest step.
C16_StatusDeduplicated == []C16_State /\ [][C16_Step]_vars

\* the same payload was emitted twice, with another status in between
C16_Witness ==
  \E i, j \in 1..Len(StatusPayloads) :
    i + 1 < j /\ StatusPayloads[i] = StatusPayloads[j]

\* ----------------------------------------------------------------- C17
Defective(cfg) ==
  \/ cfg.type \notin RoundTypes
  \/ cfg.context_strategy \notin RoundContextStrategy
  \/ Absent \in {cfg.title, cfg.type, cfg.context_strategy, cfg.prompt_template}

DefectiveRounds == {i \in 1..Len(raw_rounds) : Defective(raw_rounds[i])}

\* C17: when some round has a type or a context strategy outside its
\* enumeration, or lacks one of the four fields, the loader never gets past
\* that round, never returns and no DebateSpec exists; it ends in an
\* exception only for such a round, and a returned spec holds exactly the
\* rounds of the source, all of which pass the checks.
C17_LoadValidates ==
  /\ \A i \in DefectiveRounds : Len(rounds) < i
  /\ DefectiveRounds # {} => pc # "loaded" /\ debate_spec = <<>>
  /\ pc \in {"KeyError", "ValueError"} => Len(rounds) + 1 \in DefectiveRounds
  /\ pc = "loaded" =>
       /\ DefectiveRounds = {}
       /\ TypesOf(debate_spec) = [i \in 1..Len(raw_rounds) |-> raw_rounds[i].type]
  /\ steps = 0 /\ events = <<>>

\* the load failed at its second round, the first one being valid
C17_Witness ==
  /\ pc = "ValueError"
  /\ Len(rounds) = 1
  /\ raw_rounds[2].type = "not-a-type"

\* ----------------------------------------------------------------- C18
SequentialRounds ==
  {r \in DOMAIN debate_spec : debate_spec[r].type = "sequential"}

\* C18 as claimed: with exactly one participant a turn order that has been
\* set up is that participant, also when it is the last speaker, and in a
\* run that has ended the participant has taken exactly one turn in every
\* turn-based round.
C18_Original ==
  NumAgents = 1 =>
    /\ round_agent_order \in {<<>>, agents}
    /\ Terminated =>
         \A r \in SequentialRounds :
           /\ Len(RoundEntries(r)) = 1
           /\ RoundEntries(r)[1].id = agents[1].id

\* ----------------------------------------------------------------- C19
SynthesisOnly ==
  \A r \in DOMAIN debate_spec : debate_spec[r].type = "moderator"

\* C19 as claimed: a run with zero participants over a synthesis-only spec
\* ends at End, its stream holding one agent_response by the synthesizer
\* for every round and debate_complete as its last event.
C19_Original ==
  (NumAgents = 0 /\ SynthesisOnly /\ Terminated) =>
    /\ pc = "END"
    /\ \A r \in DOMAIN debate_spec : ResponsesForRound(r) = 1
    /\ \A i \in EventIdx("agent_response") :
         events[i].entry.agent = "Moderator"
    /\ EventIdx("debate_complete") = {Len(events)}

\* ----------------------------------------------------------------- C20
\* the branch table of the claim
ClaimedBranch ==
  IF current_round \notin DOMAIN debate_spec THEN <<"END", "END">>
  ELSE CASE debate_spec[current_round].type = "parallel" ->
              <<"execute_parallel_round", "OPENING_STATEMENTS">>
         [] debate_spec[current_round].type = "moderator" ->
              <<"execute_moderator_round", "MODERATOR_ROUND">>
         [] debate_spec[current_round].type = "sequential"
              /\ round_agent_order = <<>> ->
              <<"setup_sequential_round", "SETUP_SEQUENTIAL_ROUND">>
         [] debate_spec[current_round].type = "sequential"
              /\ round_agent_order # <<>> ->
              <<"execute_sequential_turn", "SEQUENTIAL_TURN">>

RouteStep == pc = "route_debate" /\ pc' \in Nodes \cup {"END"}

\* C20: a Route step goes to the branch that current_round and turn_order
\* select (End when current_round is no key of the spec), writes the status
\* code naming that branch and changes no other field of the run state.
C20_RouteChoosesBranch ==
  [][RouteStep =>
       /\ pc' = ClaimedBranch[1]
       /\ status_context' = Status(ClaimedBranch[2], 0, "")
       /\ UNCHANGED <<debate_spec, agents, debate_transcript, current_round,
                      round_agent_order, current_agent_index,
                      last_speaker_id>>]_vars

\* Route has just sent a turn-based round with a turn order to its turn
C20_Witness ==
  /\ pc = "execute_sequential_turn"
  /\ ~awaiting
  /\ status_context.code = "SEQUENTIAL_TURN"
  /\ round_agent_order # <<>>

\* ----------------------------------------------------------------- C21
\* the round numbers of the ROUND_STARTING statuses, in stream order
RoundsStarted ==
  LET IsStart(e) ==
        e.type = "status_update" /\ e.status.code = "ROUND_STARTING"
      st == SelectSeq(events, IsStart)
  IN [i \in 1..Len(st) |-> st[i].status.round_number]

LaterRounds(r) == {q \in DOMAIN debate_spec : q > r}

C21_State ==
  pc = "END" =>
    /\ RoundsStarted = ordered_rounds(debate_spec)
    /\ current_round \notin DOMAIN debate_spec

C21_Step ==
  current_round' # current_round =>
    /\ current_round' > current_round
    /\ current_round \in DOMAIN debate_spec
    /\ IF LaterRounds(current_round) = {}
         THEN current_round' = current_round + 1
         ELSE /\ current_round' \in LaterRounds(current_round)
              /\ \A q \in LaterRounds(current_round) : current_round' <= q

\* C21: current_round changes only from a round of the spec to the smallest
\* larger round number of the spec, or to current_round + 1 when there is
\* none; it never decreases, and in a run that reached End every round of
\* the spec was started exactly once, in ascending order of the keys, and
\* current_round is no key of the spec.
C21_RoundsAdvanceInOrder == []C21_State /\ [][C21_Step]_vars

\* a finished run over non-contiguous round numbers
C21_Witness ==
  /\ pc = "END"
  /\ NumAgents >= 1
  /\ DOMAIN debate_spec = {2, 4}
  /\ current_round = 5

\* ----------------------------------------------------------------- C22
TurnStep == pc = "execute_sequential_turn" /\ pc' = "route_debate"

\* C22: a TurnStep appends one entry, of the current round, by the
\* participant at turn_order[current_turn_index]; after the last index it
\* moves to the next round, empties turn_order, resets the index to 0 and
\* records that participant as last speaker; otherwise it adds one to the
\* index and leaves current_round, turn_order and last_speaker_id alone.
C22_TurnStepEffect ==
  [][TurnStep =>
       LET speaker == round_agent_order[current_agent_index + 1]
       IN /\ Len(debate_transcript') = Len(debate_transcript) + 1
          /\ SubSeq(debate_transcript', 1, Len(debate_transcript))
               = debate_transcript
          /\ debate_transcript'[Len(debate_transcript')].id = speaker.id
          /\ debate_transcript'[Len(debate_transcript')].round = current_round
          /\ IF current_agent_index + 1 = Len(round_agent_order)
               THEN /\ current_round' > current_round
                    /\ round_agent_order' = <<>>
                    /\ current_agent_index' = 0
                    /\ last_speaker_id' = speaker.id
               ELSE /\ current_agent_index' = current_agent_index + 1
                    /\ UNCHANGED <<current_round, round_agent_order,
                                   last_speaker_id>>]_vars

\* the last turn of a round of two participants has just been applied
C22_Witness ==
  /\ pc = "route_debate"
  /\ status_context.code = "AGENT_TURN_STARTING"
  /\ NumAgents = 2
  /\ round_agent_order = <<>>
  /\ last_speaker_id = debate_transcript[Len(debate_transcript)].id

\* ----------------------------------------------------------------- C23
\* the transcript as a full_transcript context renders it
Rendered(transcript) ==
  [i \in 1..Len(transcript) |->
     <<transcript[i].agent, transcript[i].round, transcript[i].content>>]

\* C23 as claimed: the context of a synthesis round's call holds every
\* transcript entry appended so far, in append order, whatever the round's
\* context strategy.
C23_Original ==
  (pc = "execute_moderator_round" /\ awaiting) =>
    call_content.lines = Rendered(debate_transcript)

\* ----------------------------------------------------------------- C24
AgentIds == {agents[i].id : i \in 1..NumAgents}
ReturnedIds == {completed[i] : i \in 1..Len(completed)}
InBroadcast == pc = "execute_parallel_round" /\ awaiting

C24_State ==
  /\ \A r \in DOMAIN debate_spec :
       debate_spec[r].type = "parallel" =>
         /\ Len(RoundEntries(r)) \in {0, NumAgents}
         /\ ResponsesForRound(r) \in {0, NumAgents}
  /\ InBroadcast =>
       /\ RoundEntries(current_round) = <<>>
       /\ pending \cup ReturnedIds = AgentIds
       /\ pending \cap ReturnedIds = {}
  /\ pending # {} => awaiting

C24_Step ==
  /\ (pc = "execute_parallel_round" /\ ~awaiting /\ awaiting') =>
       pending' = AgentIds
  /\ (InBroadcast /\ <<debate_transcript, current_round>>'
                       # <<debate_transcript, current_round>>) =>
       /\ pending = {}
       /\ Len(debate_transcript') = Len(debate_transcript) + NumAgents

InSingleCall ==
  pc \in {"execute_sequential_turn", "execute_moderator_round"} /\ awaiting

C25_State ==
  /\ pc # "execute_parallel_round" => Cardinality(pending) <= 1
  /\ InSingleCall => Cardinality(pending) + Len(completed) = 1
  /\ (pc = "execute_sequential_turn" /\ awaiting) =>
       pending \cup ReturnedIds
         = {round_agent_order[current_agent_index + 1].id}
  /\ (pc = "execute_moderator_round" /\ awaiting) =>
       pending \cup ReturnedIds = {ModeratorId}

C25_Step ==
  /\ steps' # steps => (steps' = steps + 1 /\ pending = {} /\ ~awaiting)
  /\ (InSingleCall /\ ~awaiting') =>
       \/ pc' = "CallError"
       \/ /\ pending = {}
          /\ Len(debate_transcript') = Len(debate_transcript) + 1

\* C25: outside a broadcast step at most one completion call is
\* outstanding; a turn or synthesis step issues exactly one call (for the
\* participant whose turn it is, or the moderator), and a new engine step
\* starts only when no call is outstanding, the step that awaited the call
\* having appended its entry.
C25_OneCallAtATime == []C25_State /\ [][C25_Step]_vars

\* the call of the second turn of a round is outstanding
C25_Witness ==
  /\ pc = "execute_sequential_turn"
  /\ awaiting
  /\ current_agent_index = 1
  /\ Cardinality(pending) = 1

\* ----------------------------------------------------------------- C26
IsPermutation(order, ags) ==
  /\ Len(order) = Len(ags)
  /\ \A i \in 1..Len(ags) :
       Cardinality({j \in 1..Len(order) : order[j] = ags[i]}) = 1

AuthorsOf(transcript, r) ==
  LET InRound(e) == e.round = r
      es == SelectSeq(transcript, InRound)
  IN [i \in 1..Len(es) |-> es[i].id]

OrderIds(n) == [i \in 1..n |-> round_agent_order[i].id]

C26_State ==
  /\ round_agent_order # <<>> =>
       /\ IsPermutation(round_agent_order, agents)
       /\ AuthorsOf(debate_transcript, current_round)
            = OrderIds(current_agent_index)
  /\ \A r \in SequentialRounds :
       r < current_round =>
         LET authors == AuthorsOf(debate_transcript, r)
         IN /\ Len(authors) = NumAgents
            /\ \A a \in AgentIds :
                 Cardinality({i \in 1..Len(authors) : authors[i] = a}) = 1

C26_Step ==
  TurnStep =>
    AuthorsOf(debate_transcript', current_round)
      = OrderIds(current_agent_index + 1)

\* C26: a turn order that has been set up is a permutation of the
\* participant list; every turn appends the entry of the next participant
\* of that order, so the entries of the round follow the order, and a
\* completed turn-based round holds exactly one entry of every participant.
C26_TurnOrderIsPermutation == []C26_State /\ [][C26_Step]_vars

\* a completed turn-based round whose turns ran against the list order
C26_Witness ==
  \E r \in SequentialRounds :
    r < current_round /\ AuthorsOf(debate_transcript, r) = <<2, 1>>

\* ----------------------------------------------------------------- C27
OrderReturned == pc = "order_returned"

\* p with its first element moved behind all the others
FirstToEnd(p) ==
  [i \in 1..Len(p) |-> IF i < Len(p) THEN p[i + 1] ELSE p[1]]

IdsOf(ags) == {ags[i].id : i \in 1..Len(ags)}

\* C27: given the permutation p the random source produced, the shuffler
\* returns p with its first element moved to the end, the others keeping
\* their relative order, when an exclusion id is set, p has more than one
\* element and p's first id is the exclusion id; in every other case (no
\* exclusion id, an id no participant has, the excluded participant not
\* first, a single participant) it returns p unchanged, and for an empty
\* participant list it returns the empty sequence.
C27_ShufflerRotatesOnce ==
  OrderReturned =>
    LET p == shuffled
        x == last_speaker_id
    IN /\ agents = <<>> => round_agent_order = <<>>
       /\ (x # None /\ Len(p) > 1 /\ p[1].id = x)
            => round_agent_order = FirstToEnd(p)
       /\ (x = None \/ Len(p) <= 1 \/ x \notin IdsOf(agents)
              \/ (Len(p) >= 1 /\ p[1].id # x))
            => round_agent_order = p

\* the shuffle left the excluded participant first among three or more, and
\* the returned order is the rotation, which differs from p
C27_Witness ==
  /\ OrderReturned
  /\ Len(shuffled) > 2
  /\ shuffled[1].id = last_speaker_id
  /\ round_agent_order = FirstToEnd(shuffled)
  /\ round_agent_order # shuffled

\* ----------------------------------------------------------------- C28
\* the rounds whose entries a context shows
RoundsIn(content) == {content.lines[i][2] : i \in 1..Len(content.lines)}

C28_State ==
  InBroadcast =>
    /\ current_round \notin RoundsIn(call_content)
    /\ \A r \in RoundsIn(call_content) : r < current_round
    /\ call_content.lines =
         IF debate_spec[current_round].context_strategy = "full_transcript"
           THEN Rendered(SelectSeq(debate_transcript,
                                   LAMBDA e : e.round < current_round))
           ELSE <<>>

C28_Step == (InBroadcast /\ InBroadcast') => call_content' = call_content

\* C28: in a broadcast round the one context handed to all k calls is
\* assembled when the calls are issued, from the transcript as it stood
\* before the round, and stays the same while calls return in any order: it
\* shows no entry of the round itself.
C28_BroadcastSharedContext == []C28_State /\ [][C28_Step]_vars

\* the second participant's call returned first; the first participant's
\* call is outstanding with a context that shows the earlier round
C28_Witness ==
  /\ InBroadcast
  /\ NumAgents = 2
  /\ completed = <<agents[2].id>>
  /\ pending = {agents[1].id}
  /\ call_content.lines # <<>>

\* ----------------------------------------------------------------- C29
InTurn == pc = "execute_sequential_turn" /\ awaiting

\* the entries of the turns already taken in the current round
EarlierTurns == RoundEntries(current_round)

\* C29: the context of a turn's call under full_transcript is the topic
\* followed by every transcript entry appended so far, in append order: the
\* entries of the earlier rounds and those of the turns already taken in
\* the current round, one per turn; under topic_only it is the topic alone.
C29_TurnContext ==
  InTurn =>
    /\ Len(EarlierTurns) = current_agent_index
    /\ call_content =
         IF debate_spec[current_round].context_strategy = "full_transcript"
           THEN [topic |-> Topic, framed |-> TRUE,
                 lines |-> Rendered(debate_transcript)]
           ELSE [topic |-> Topic, framed |-> FALSE, lines |-> <<>>]

\* the second turn of a full_transcript round: its context shows an entry
\* of the earlier round and the entry of the round's first turn
C29_Witness ==
  /\ InTurn
  /\ current_agent_index = 1
  /\ debate_spec[current_round].context_strategy = "full_transcript"
  /\ current_round \in RoundsIn(call_content)
  /\ \E r \in RoundsIn(call_content) : r < current_round

\* ----------------------------------------------------------------- C30
TurnBased(r) == type_for_round(debate_spec, r) = "sequential"

C30_State ==
  /\ ~TurnBased(current_round) => round_agent_order = <<>>
  /\ pc = "END" => round_agent_order = <<>>
  /\ (steps = 0 /\ pc = "route_debate") => round_agent_order = <<>>
  /\ round_agent_order # <<>> =>
       /\ TurnBased(current_round)
       /\ current_agent_index < Len(round_agent_order)
       /\ Len(RoundEntries(current_round)) = current_agent_index

C30_Step ==
  /\ (round_agent_order = <<>> /\ round_agent_order' # <<>>) =>
       /\ pc = "setup_sequential_round"
       /\ TurnBased(current_round)
       /\ current_round' = current_round
  /\ (round_agent_order # <<>> /\ round_agent_order' # round_agent_order) =>
       /\ TurnStep
       /\ current_agent_index + 1 = Len(round_agent_order)
       /\ round_agent_order' = <<>>
       /\ current_round' # current_round

\* C30: turn_order is empty in every reachable state in which current_round
\* is not a turn-based round of the spec, the initial state and the state
\* in which Route chose End included; it becomes non-empty only in the
\* TurnSetup of a turn-based round, stays as it is during that round, and
\* is emptied by the round's last TurnStep, which leaves the round.
C30_TurnOrderScope == []C30_State /\ [][C30_Step]_vars

\* mid-round: the order of two participants is set and one turn is taken
C30_Witness ==
  /\ TurnBased(current_round)
  /\ Len(round_agent_order) = 2
  /\ current_agent_index = 1
  /\ pc = "route_debate"

\* ----------------------------------------------------------------- C31
\* C31: across every step the transcript before the step is a prefix of the
\* transcript after it: entries are only appended, and no existing entry's
\* speaker, role, round number or content is changed or removed.
C31_TranscriptAppendOnly ==
  [][/\ Len(debate_transcript') >= Len(debate_transcript)
     /\ \A i \in 1..Len(debate_transcript) :
          /\ debate_transcript'[i].agent = debate_transcript[i].agent
          /\ debate_transcript'[i].role = debate_transcript[i].role
          /\ debate_transcript'[i].round = debate_transcript[i].round
          /\ debate_transcript'[i].content = debate_transcript[i].content
          /\ debate_transcript'[i] = debate_transcript[i]]_vars

\* a synthesis round has appended its entry behind those of an earlier round
C31_Witness ==
  /\ Len(debate_transcript) >= 2
  /\ debate_transcript[Len(debate_transcript)].role = "moderator"
  /\ debate_transcript[1].round < debate_transcript[Len(debate_transcript)].round

\* ----------------------------------------------------------------- C32
InBroadcastOrSynthesis ==
  pc \in {"execute_parallel_round", "execute_moderator_round"}

\* the author of the last entry of the latest completed turn-based round
LastTurnSpeaker ==
  LET turns == SelectSeq(debate_transcript,
                         LAMBDA e : TurnBased(e.round) /\ e.round < current_round)
  IN IF turns = <<>> THEN None ELSE turns[Len(turns)].id

C32_State == last_speaker_id = LastTurnSpeaker

C32_Step ==
  /\ InBroadcastOrSynthesis =>
       UNCHANGED <<round_agent_order, current_agent_index, last_speaker_id,
                   inputs>>
  /\ (pc = "setup_sequential_round" /\ pc' = "route_debate"
        /\ LastTurnSpeaker # None /\ NumAgents > 1) =>
       round_agent_order'[1].id # LastTurnSpeaker

\* C32: the steps of a broadcast and of a synthesis round leave turn_order,
\* current_turn_index and last_speaker_id unchanged; last_speaker_id is at
\* all times the last speaker of the latest completed turn-based round, and
\* it is the exclusion the next turn-based round's setup applies, with
\* broadcast or synthesis rounds in between or not.
C32_LastSpeakerSurvives == []C32_State /\ [][C32_Step]_vars

\* a turn-based round is set up right after a broadcast or synthesis round
\* that followed an earlier turn-based round
C32_Witness ==
  /\ pc = "route_debate"
  /\ status_context.code = "ROUND_STARTING"
  /\ round_agent_order # <<>>
  /\ NumAgents > 1
  /\ last_speaker_id # None
  /\ ~TurnBased(debate_transcript[Len(debate_transcript)].round)

\* ----------------------------------------------------------------- C33
\* the contributions of the stream: speaker and round of every response,
\* and debate_complete
Contributions ==
  LET shown == SelectSeq(events, LAMBDA e : e.type # "status_update")
  IN [i \in 1..Len(shown) |->
        IF shown[i].type = "agent_response"
          THEN <<shown[i].entry.id, shown[i].entry.round>>
          ELSE <<"debate_complete">>]

\* C33 as claimed: run with the spec of DEBATE_ROUNDS and the same k
\* participants, the engine's run ends with the stream of contributions the
\* hard-coded orchestrator produces: k of round 1 in participant order, k of
\* round 2 and k of round 3, each by a permutation of the participants, one
\* by the moderator, then debate_complete.
C33_Original == Terminated => LegacyRunDebate(agents, Contributions)

\* ----------------------------------------------------------------- C34
C34_State ==
  /\ current_agent_index \in Nat
  /\ pc = "execute_sequential_turn" =>
       /\ 0 <= current_agent_index
       /\ current_agent_index < Len(round_agent_order)
  /\ round_agent_order = <<>> => current_agent_index = 0

C34_Step ==
  (pc = "setup_sequential_round" /\ pc' = "route_debate") =>
    /\ current_agent_index' = current_agent_index
    /\ current_agent_index = 0

\* C34: whenever a TurnStep executes, 0 <= current_turn_index <
\* length(turn_order), so the lookup of the speaker is within bounds, and
\* whenever turn_order is empty current_turn_index is 0; TurnSetup leaves
\* current_turn_index as it finds it, which is 0.
C34_TurnIndexInBounds == []C34_State /\ [][C34_Step]_vars

\* the first turn of a later turn-based round: the index is 0 because the
\* last turn of the earlier round reset it
C34_Witness ==
  /\ pc = "execute_sequential_turn"
  /\ awaiting
  /\ last_speaker_id # None
  /\ current_agent_index = 0
  /\ Len(round_agent_order) = 2

\* ----------------------------------------------------------------- C35
TurnRounds == {r \in DOMAIN debate_spec : TurnBased(r)}

NobodyToTurn == NumAgents = 0 /\ TurnRounds # {}

\* C35 as claimed: with zero participants and a spec that contains a
\* turn-based round the run never reaches End: turn_order stays empty,
\* current_round never advances past the first turn-based round, and the
\* run stops only through budget exhaustion.
C35_Original ==
  NobodyToTurn =>
    /\ pc # "END"
    /\ round_agent_order = <<>>
    /\ current_round <= Min(TurnRounds)
    /\ Terminated => pc = "GraphRecursionError"

\* ----------------------------------------------------------------- C36
Executors == Nodes \ {"route_debate"}

\* steps counts the node executions started; Route runs as the odd ones
C36_State ==
  /\ steps = 0 => pc = "route_debate"
  /\ pc = "route_debate" => steps % 2 = 0 /\ ~awaiting
  /\ pc \in Executors =>
       /\ EdgeTarget(status_context.code) = pc
       /\ steps % 2 = (IF awaiting THEN 0 ELSE 1)
  /\ pc = "END" => status_context.code = "END" /\ steps % 2 = 1

C36_Step ==
  /\ pc # "END"
  /\ (pc = "route_debate" /\ pc' # pc) =>
       pc' \in Executors \cup {"END", "GraphRecursionError"}
  /\ (pc \in Executors /\ pc' # pc) =>
       pc' \in {"route_debate", "GraphRecursionError", "CallError"}
  /\ pc' = "END" => pc = "route_debate"
  /\ steps' \in {steps, steps + 1}
  /\ steps' = steps + 1 =>
       \/ pc = "route_debate"
       \/ pc \in Executors /\ EdgeTarget(status_context.code) = pc

\* C36: Route is the first step of a run; the step after a Route step is the
\* executor named by the status code Route wrote, or the run is at End; the
\* step after an executor step is a Route step; End is entered only from
\* Route, and no step is taken after End.
C36_RouteAlternates == []C36_State /\ [][C36_Step]_vars

\* a run of at least two rounds has reached End from Route
C36_Witness ==
  /\ pc = "END"
  /\ steps >= 5
  /\ Cardinality({debate_transcript[i].round :
                    i \in 1..Len(debate_transcript)}) >= 2

\* ----------------------------------------------------------------- C37
CallExecutors ==
  {"execute_parallel_round", "execute_sequential_turn",
   "execute_moderator_round"}

RoutingCodes ==
  {"OPENING_STATEMENTS", "SEQUENTIAL_TURN", "MODERATOR_ROUND"}

\* the step of a call-issuing executor that hands its patch to run_debate
PatchStep == pc \in CallExecutors /\ pc' = "route_debate"

\* until the patch of a call-issuing executor arrives, the last event of the
\* stream is the routing code of the Route step before it
C37_State ==
  pc \in CallExecutors =>
    /\ events # <<>>
    /\ events[Len(events)].type = "status_update"
    /\ events[Len(events)].status.code \in RoutingCodes
    /\ EdgeTarget(events[Len(events)].status.code) = pc

C37_Step ==
  /\ (pc \in CallExecutors /\ ~PatchStep) => events' = events
  /\ PatchStep =>
       LET new == SubSeq(debate_transcript', Len(debate_transcript) + 1,
                         Len(debate_transcript'))
       IN /\ awaiting /\ pending = {}
          /\ Len(events') = Len(events) + 1 + Len(new)
          /\ SubSeq(events', 1, Len(events)) = events
          /\ events'[Len(events) + 1].type = "status_update"
          /\ events'[Len(events) + 1].status.code =
               (IF pc = "execute_sequential_turn"
                  THEN "AGENT_TURN_STARTING" ELSE "ROUND_STARTING")
          /\ events'[Len(events) + 1].status.round_number = current_round
          /\ \A i \in 1..Len(new) :
               events'[Len(events) + 1 + i] = ResponseEvent(new[i])

\* C37: the ROUND_STARTING or AGENT_TURN_STARTING status of a step that
\* issues completion calls enters the stream only when all its calls have
\* returned, together with and immediately before the step's agent_response
\* events; from the Route step until then the stream ends with the routing
\* code Route wrote and nothing is emitted.
C37_StatusAfterCalls == []C37_State /\ [][C37_Step]_vars

\* a turn's patch has just been reported: AGENT_TURN_STARTING and then the
\* response of that turn end the stream
C37_Witness ==
  /\ pc = "route_debate"
  /\ Len(events) >= 2
  /\ events[Len(events)].type = "agent_response"
  /\ events[Len(events) - 1].type = "status_update"
  /\ events[Len(events) - 1].status.code = "AGENT_TURN_STARTING"
  /\ events[Len(events) - 1].status.agent = events[Len(events)].entry.agent

\* ----------------------------------------------------------------- C38
C38_State ==
  LET t == debate_transcript
  IN /\ \A i \in 1..Len(t) :
          /\ t[i].round \in DOMAIN debate_spec
          /\ t[i].round <= current_round
     /\ \A i \in 1..(Len(t) - 1) : t[i].round <= t[i + 1].round
     /\ \A i \in 2..Len(t) :
          t[i].round # t[i - 1].round =>
            \A j \in 1..(i - 1) : t[j].round # t[i].round

C38_Step ==
  \A i \in (Len(debate_transcript) + 1)..Len(debate_transcript') :
    debate_transcript'[i].round = current_round

\* C38: every transcript entry's round number is a key of the spec and is
\* the value current_round had in the step that appended it; round numbers
\* never decrease along the transcript, so the entries of a round are
\* contiguous and none follows an entry of a later round.
C38_RoundsNonDecreasing == []C38_State /\ [][C38_Step]_vars

\* the transcript holds the entries of an earlier round and, behind them,
\* an entry of the turn-based round still under way
C38_Witness ==
  /\ Len(debate_transcript) >= 3
  /\ debate_transcript[1].round < current_round
  /\ debate_transcript[Len(debate_transcript)].round = current_round
  /\ round_agent_order # <<>>

\* ------------------------------------------------- AgentManager's stores
\* AgentManager with its two stores, called through create_agent,
\* create_panel and import_data.  An entity is [id, name, is_built_in]; name
\* stands for all the other fields and tells where the entity came from.
EntityIds == 1..MaxEntityIds

Entity(id, name, is_built_in) ==
  [id |-> id, name |-> name, is_built_in |-> is_built_in]

\* _load_data: the built-in agents, stored under their ids
BuiltInStores ==
  {[id \in 1..b |-> Entity(id, "builtin", TRUE)] : b \in 0..MaxBuiltIn}

\* the records an import can hold: well formed, with a required field
\* missing (the id itself when id = None), or with an id that is a JSON
\* array or object
ImportRecords ==
  {[form |-> "ok", id |-> id, is_built_in |-> c] :
     id \in EntityIds, c \in BOOLEAN}
    \cup {[form |-> "missing_field", id |-> id, is_built_in |-> FALSE] :
            id \in EntityIds \cup {None}}
    \cup {[form |-> "unhashable_id", id |-> None, is_built_in |-> FALSE]}

\* variant: an entity stored as built-in is overwritten like any other
ImportEntity_NoProtection(entity, storage) ==
  IF entity.form = "unhashable_id"
    THEN [storage |-> storage, raised |-> "TypeError"]
  ELSE IF entity.form = "missing_field"
    THEN [storage |-> storage, raised |-> "ValidationError"]
  ELSE [storage |->
          [id \in DOMAIN storage \cup {entity.id} |->
             IF id = entity.id THEN Entity(entity.id, "imported", FALSE)
             ELSE storage[id]],
        raised |-> "none"]

\* _import_entity: the storage afterwards and the exception raised, if any.
\* storage.get of an unhashable id raises TypeError; a record whose id is
\* stored as built-in is skipped before it is validated; the model
\* constructor raises ValidationError for a missing field.
ImportEntity(entity, storage) ==
  IF entity.form = "unhashable_id"
    THEN [storage |-> storage, raised |-> "TypeError"]
  ELSE IF entity.id \in DOMAIN storage /\ storage[entity.id].is_built_in
    THEN [storage |-> storage, raised |-> "none"]
  ELSE IF entity.form = "missing_field"
    THEN [storage |-> storage, raised |-> "ValidationError"]
  ELSE [storage |->
          [id \in DOMAIN storage \cup {entity.id} |->
             IF id = entity.id THEN Entity(entity.id, "imported", FALSE)
             ELSE storage[id]],
        raised |-> "none"]

\* the except clause of import_data: what the call does with an exception
ImportOutcome(raised, continue) ==
  CASE raised = "none" -> continue
    [] raised \in {"JSONDecodeError", "KeyError", "TypeError"} ->
         "import_returned_false"
    [] OTHER -> "import_raised"

NoCall ==
  {"agent_manager", "import_returned_true", "import_returned_false",
   "import_raised"}

ImportInit ==
  /\ agents \in BuiltInStores
  /\ panels = <<>>
  /\ cursor = 0
  /\ entity_data = <<>>
  /\ before = <<>>
  /\ pc = "agent_manager"
  /\ debate_spec = <<>>
  /\ debate_transcript = <<>>
  /\ current_round = 0
  /\ round_agent_order = <<>>
  /\ current_agent_index = 0
  /\ status_context = NoStatus
  /\ last_speaker_id = None
  /\ steps = 0
  /\ awaiting = FALSE
  /\ pending = {}
  /\ results = <<>>
  /\ completed = <<>>
  /\ call_content = BuildRoundContext(<<>>, "topic_only")
  /\ call_failures = <<>>
  /\ last_status_context = NoStatus
  /\ last_transcript_index = 0
  /\ events = <<>>
  /\ limit = None
  /\ raw_rounds = <<>>
  /\ rounds = <<>>
  /\ shuffled = <<>>

enginevars ==
  <<debate_spec, debate_transcript, current_round, round_agent_order,
    current_agent_index, status_context, last_speaker_id, steps, awaiting,
    callvars, drivervars, limit, raw_rounds, rounds, shuffled>>

\* create_agent: the new agent is stored under a fresh uuid4
CreateAgent ==
  /\ pc \in NoCall
  /\ \E id \in EntityIds \ DOMAIN agents :
       agents' = (id :> Entity(id, "created", FALSE)) @@ agents
  /\ pc' = "agent_manager"
  /\ cursor' = 0
  /\ entity_data' = <<>>
  /\ before' = <<>>
  /\ UNCHANGED <<panels, enginevars>>

\* create_panel
CreatePanel ==
  /\ pc \in NoCall
  /\ \E id \in EntityIds \ DOMAIN panels :
       panels' = (id :> Entity(id, "created", FALSE)) @@ panels
  /\ pc' = "agent_manager"
  /\ cursor' = 0
  /\ entity_data' = <<>>
  /\ before' = <<>>
  /\ UNCHANGED <<agents, enginevars>>

\* import_data up to its first loop: json.loads raises JSONDecodeError, or
\* yields something without a get method (AttributeError), or a dict
ImportParse ==
  /\ pc \in NoCall
  /\ \E raised \in {"none", "JSONDecodeError", "AttributeError"} :
       pc' = ImportOutcome(raised, "import_agents")
  /\ before' = <<agents, panels>>
  /\ cursor' = 0
  /\ entity_data' = <<>>
  /\ UNCHANGED <<agents, panels, enginevars>>

\* one iteration of the loop over data.get("agents", [])
ImportAgent ==
  /\ pc = "import_agents"
  /\ cursor < MaxImportRecords
  /\ \E agent_data \in ImportRecords :
       LET done == ImportEntity(agent_data, agents)
       IN /\ entity_data' = agent_data
          /\ agents' = done.storage
          /\ pc' = ImportOutcome(done.raised, "import_agents")
  /\ cursor' = cursor + 1
  /\ UNCHANGED <<panels, before, enginevars>>

\* the loop over the agents is exhausted
ImportAgentsDone ==
  /\ pc = "import_agents"
  /\ pc' = "import_panels"
  /\ UNCHANGED <<agents, storevars, enginevars>>

\* one iteration of the loop over data.get("panels", [])
ImportPanel ==
  /\ pc = "import_panels"
  /\ cursor < MaxImportRecords
  /\ \E panel_data \in ImportRecords :
       LET done == ImportEntity(panel_data, panels)
       IN /\ entity_data' = panel_data
          /\ panels' = done.storage
          /\ pc' = ImportOutcome(done.raised, "import_panels")
  /\ cursor' = cursor + 1
  /\ UNCHANGED <<agents, before, enginevars>>

\* the loop over the panels is exhausted: return True
ImportReturn ==
  /\ pc = "import_panels"
  /\ pc' = "import_returned_true"
  /\ UNCHANGED <<agents, storevars, enginevars>>

ImportNext ==
  \/ CreateAgent
  \/ CreatePanel
  \/ ImportParse
  \/ ImportAgent
  \/ ImportAgentsDone
  \/ ImportPanel
  \/ ImportReturn

ImportSpec == ImportInit /\ [][ImportNext]_vars

\* ----------------------------------------------------------------- C39
InImport == pc \in {"import_agents", "import_panels"}

\* every entity stored as built-in is kept as it is
KeepsBuiltIns(storage, storage_after) ==
  \A id \in DOMAIN storage :
    storage[id].is_built_in =>
      id \in DOMAIN storage_after /\ storage_after[id] = storage[id]

\* the ids whose entity the step stored or replaced
Written(storage, storage_after) ==
  {id \in DOMAIN storage_after :
     id \notin DOMAIN storage \/ storage_after[id] # storage[id]}

C39_State ==
  /\ \A id \in DOMAIN agents :
       agents[id].is_built_in => agents[id] = Entity(id, "builtin", TRUE)
  /\ \A id \in DOMAIN panels : ~panels[id].is_built_in

C39_Step ==
  /\ KeepsBuiltIns(agents, agents')
  /\ KeepsBuiltIns(panels, panels')
  /\ InImport =>
       /\ \A id \in Written(agents, agents') : ~agents'[id].is_built_in
       /\ \A id \in Written(panels, panels') : ~panels'[id].is_built_in

ImportFailed == pc \in {"import_returned_false", "import_raised"}

====
